---- MODULE Spec2Model ----
(***************************************************************************)
(* Model of queues_and_workers: the queue broker                           *)
(* (src/queues_and_workers/src/svcs/queue.ts, specification Spec) and the  *)
(* worker tracker (src/queues_and_workers/src/svcs/worker_tracker.ts,      *)
(* specifications WorkerSpec and WorkerFairSpec), each for one key.        *)
(* MidBundleSpec runs the tracker's handlers from every WorkerState of a   *)
(* bundle in progress, to check them as functions of the stored state.     *)
(*                                                                         *)
(* Exclusive handlers of a key run one at a time.  A handler that does not *)
(* await another service is one atomic action; a handler that awaits       *)
(* pollBundle is split at the await and keeps the key in between.          *)
(* pollBundle is a shared handler that only creates an awakeable and sends *)
(* a registerCallback message, which the exclusive handler processes       *)
(* later.  ctx.run closures stand for external I/O (liveness probe,        *)
(* persisting a result) and may succeed or fail.                           *)
(*                                                                         *)
(* Besides the stored state the model keeps the awakeables, the messages   *)
(* in flight and history variables that record what was accepted, which    *)
(* completions and effects the handlers issued and which bundle a tracker  *)
(* owns.  The history variables never influence a handler.                 *)
(***************************************************************************)
EXTENDS Integers, Sequences, FiniteSets

\* ------------------------------------------------------------------------
\*  bounds
\* ------------------------------------------------------------------------

\* number of bundles producers offer (addBundle or pushBackBundle)
MaxBundles == 3
\* number of pollBundle invocations
MaxHandles == 2
\* number of seal invocations
MaxSeals == 2
\* number of tasks of the largest bundle the queue hands to a tracker
MaxTasks == 2
\* number of startWorker invocations
MaxStarts == 2
\* the per-bundle dispatch counter saturates here
MaxDispatchCount == 4

\* ------------------------------------------------------------------------
\*  program constants and types
\* ------------------------------------------------------------------------

TAIL == 0
HEAD == 1

Handles == 1..MaxHandles

\* the i-th bundle instance a producer offers: one task, nothing completed
BundleOf(i) == [tasksToRun |-> <<i>>, completedResouces |-> <<>>]

VARIABLES
    closed,       \* QueueState.closed (absent is falsy)
    queue,        \* QueueState.queue (absent is [])
    pollers,      \* QueueState.pollers (absent is [])
    awk,          \* awakeables: handle id -> [st, val]
    inflight,     \* registerCallback messages sent by pollBundle, not yet run
    nextBundle,   \* next bundle instance a producer will offer
    nextHandle,   \* next awakeable id pollBundle will create
    seals,        \* number of seal invocations so far
    clock,        \* number of exclusive handler invocations so far
    lastOp,       \* the last handler invocation and its outcome
    admitted,     \* history: bundles accepted by enqueue, in order
    completions,  \* history: resolveAwakeable / rejectAwakeable calls, in order
    regOrder      \* history: handles appended to pollers, in order

\* worker tracker (src/queues_and_workers/src/svcs/worker_tracker.ts), one
\* virtual object "workertracker" for one worker key
VARIABLES
    ws,           \* WorkerState: the stored fields, <<>> when absent
    wpc,          \* where the exclusive handler holding the key is
    hbs,          \* scheduled makeHeartbeat(n) messages: n -> how many
    rfPending,    \* reportFailed messages sent to self, not yet run
    proc,         \* tasks sent to the worker process, not yet completed
    starts,       \* number of startWorker invocations so far
    wlast,        \* the last tracker handler step and the effects it emitted
    owned,        \* history: the bundle last received from pollBundle
    finished,     \* history: the bundle last finalized by taskComplete
    started,      \* history: a startWorker passed, no reportFailed since
    hbRuns        \* history: <<n, r>> -> how many scheduled makeHeartbeat(n)
                  \* messages follow r consecutive failed probes of their chain

qvars == <<closed, queue, pollers, awk, inflight, nextBundle, nextHandle,
           seals, clock, lastOp, admitted, completions, regOrder>>

wvars == <<ws, wpc, hbs, rfPending, proc, starts, wlast, owned, finished,
           started, hbRuns>>

vars == <<qvars, wvars>>

Range(s) == {s[i] : i \in 1..Len(s)}

\* ------------------------------------------------------------------------
\*  awakeables (deferred completion handles)
\* ------------------------------------------------------------------------

\* an awakeable is completed by the first resolve or reject; later
\* completions of the same id are ignored
Complete(aw, h, kind, val) ==
    IF aw[h].st = "pending"
      THEN [aw EXCEPT ![h] = [st |-> kind, val |-> val]]
      ELSE aw

\* the history entry of one completion call on handle h
Call(aw, h, kind, val, by, cl) ==
    [kind |-> kind, h |-> h, val |-> val, by |-> by, at |-> clock + 1,
     pending |-> (aw[h].st = "pending"), closed |-> cl]

\* ctx.resolveAwakeable(h, b) issued by handler `by`
ResolveAwakeable(h, b, by) ==
    /\ awk' = Complete(awk, h, "resolved", <<b>>)
    /\ completions' = Append(completions,
                             Call(awk, h, "resolve", <<b>>, by, closed))

\* ctx.rejectAwakeable(h, ...) issued by handler `by`
RejectAwakeable(h, by) ==
    /\ awk' = Complete(awk, h, "rejected", <<>>)
    /\ completions' = Append(completions,
                             Call(awk, h, "reject", <<>>, by, closed))

\* ------------------------------------------------------------------------
\*  internal hand-off routine
\* ------------------------------------------------------------------------

\* history entry of an accepted bundle; direct = handed to a poller
Admit(b, end, direct) ==
    [b |-> b, end |-> end, at |-> clock + 1, direct |-> direct,
     closed |-> closed]

\* enqueue that never looks at the pollers
enqueue_alwaysStores(taskBundle, end) ==
    /\ queue' = IF end = HEAD THEN <<taskBundle>> \o queue
                              ELSE Append(queue, taskBundle)
    /\ UNCHANGED <<pollers, awk, completions>>
    /\ admitted' = Append(admitted, Admit(taskBundle, end, FALSE))

\* enqueue that stores at the head whatever the end
enqueue_tailAtHead(taskBundle, end) ==
    IF Len(pollers) > 0
      THEN /\ pollers' = Tail(pollers)
           /\ ResolveAwakeable(Head(pollers), taskBundle, "enqueue")
           /\ queue' = queue
           /\ admitted' = Append(admitted, Admit(taskBundle, end, TRUE))
      ELSE /\ queue' = <<taskBundle>> \o queue
           /\ UNCHANGED <<pollers, awk, completions>>
           /\ admitted' = Append(admitted, Admit(taskBundle, end, FALSE))

\* enqueue that stores at the tail whatever the end
enqueue_headAtTail(taskBundle, end) ==
    IF Len(pollers) > 0
      THEN /\ pollers' = Tail(pollers)
           /\ ResolveAwakeable(Head(pollers), taskBundle, "enqueue")
           /\ queue' = queue
           /\ admitted' = Append(admitted, Admit(taskBundle, end, TRUE))
      ELSE /\ queue' = Append(queue, taskBundle)
           /\ UNCHANGED <<pollers, awk, completions>>
           /\ admitted' = Append(admitted, Admit(taskBundle, end, FALSE))

\* enqueue that notifies the newest waiting poller
enqueue_newestPoller(taskBundle, end) ==
    IF Len(pollers) > 0
      THEN /\ pollers' = SubSeq(pollers, 1, Len(pollers) - 1)
           /\ ResolveAwakeable(pollers[Len(pollers)], taskBundle, "enqueue")
           /\ queue' = queue
           /\ admitted' = Append(admitted, Admit(taskBundle, end, TRUE))
      ELSE /\ queue' = IF end = HEAD THEN <<taskBundle>> \o queue
                                     ELSE Append(queue, taskBundle)
           /\ UNCHANGED <<pollers, awk, completions>>
           /\ admitted' = Append(admitted, Admit(taskBundle, end, FALSE))

\* enqueue(ctx, taskBundle, end)
enqueue(taskBundle, end) ==
    IF Len(pollers) > 0
      THEN \* notify waiting worker
           /\ pollers' = Tail(pollers)
           /\ ResolveAwakeable(Head(pollers), taskBundle, "enqueue")
           /\ queue' = queue
           /\ admitted' = Append(admitted, Admit(taskBundle, end, TRUE))
      ELSE \* store in the queue
           /\ queue' = IF end = HEAD THEN <<taskBundle>> \o queue
                                     ELSE Append(queue, taskBundle)
           /\ UNCHANGED <<pollers, awk, completions>>
           /\ admitted' = Append(admitted, Admit(taskBundle, end, FALSE))

\* ------------------------------------------------------------------------
\*  handlers
\* ------------------------------------------------------------------------

\* the bundle instances a producer may offer next
FreshBundles == IF nextBundle <= MaxBundles THEN {BundleOf(nextBundle)} ELSE {}

\* addBundle without the closed check
addBundle_noClosedCheck(taskBundle) ==
    /\ nextBundle' = nextBundle + 1
    /\ clock' = clock + 1
    /\ enqueue(taskBundle, TAIL)
    /\ lastOp' = [op |-> "addBundle", ok |-> TRUE]
    /\ UNCHANGED <<closed, inflight, nextHandle, seals, regOrder>>

\* addBundle: throws TerminalError("Queue is closed") on a closed queue
addBundle(taskBundle) ==
    /\ nextBundle' = nextBundle + 1
    /\ clock' = clock + 1
    /\ IF closed
         THEN /\ lastOp' = [op |-> "addBundle", ok |-> FALSE]
              /\ UNCHANGED <<queue, pollers, awk, admitted, completions>>
         ELSE /\ enqueue(taskBundle, TAIL)
              /\ lastOp' = [op |-> "addBundle", ok |-> TRUE]
    /\ UNCHANGED <<closed, inflight, nextHandle, seals, regOrder>>

\* pushBackBundle: works on closed queues
pushBackBundle(taskBundle) ==
    /\ nextBundle' = nextBundle + 1
    /\ clock' = clock + 1
    /\ enqueue(taskBundle, HEAD)
    /\ lastOp' = [op |-> "pushBackBundle", ok |-> TRUE]
    /\ UNCHANGED <<closed, inflight, nextHandle, seals, regOrder>>

\* pollBundle that appends its awakeable to the stored pollers itself
pollBundle_registersItself ==
    /\ nextHandle <= MaxHandles
    /\ awk' = [awk EXCEPT ![nextHandle] = [st |-> "pending", val |-> <<>>]]
    /\ pollers' = Append(pollers, nextHandle)
    /\ regOrder' = Append(regOrder, nextHandle)
    /\ nextHandle' = nextHandle + 1
    /\ lastOp' = [op |-> "pollBundle", ok |-> TRUE]
    /\ UNCHANGED <<closed, queue, inflight, nextBundle, seals, clock,
                   admitted, completions>>

\* pollBundle (shared): creates an awakeable, sends registerCallback(id) to
\* the same key and awaits the awakeable
pollBundle ==
    /\ nextHandle <= MaxHandles
    /\ awk' = [awk EXCEPT ![nextHandle] = [st |-> "pending", val |-> <<>>]]
    /\ inflight' = inflight \cup {nextHandle}
    /\ nextHandle' = nextHandle + 1
    /\ lastOp' = [op |-> "pollBundle", ok |-> TRUE]
    /\ UNCHANGED <<closed, queue, pollers, nextBundle, seals, clock,
                   admitted, completions, regOrder>>

\* registerCallback without the closed check
registerCallback_noClosedCheck(callbackId) ==
    /\ callbackId \in inflight
    /\ inflight' = inflight \ {callbackId}
    /\ clock' = clock + 1
    /\ lastOp' = [op |-> "registerCallback", ok |-> TRUE]
    /\ IF queue # <<>>
         THEN /\ queue' = Tail(queue)
              /\ ResolveAwakeable(callbackId, Head(queue), "registerCallback")
              /\ UNCHANGED <<pollers, regOrder>>
         ELSE /\ pollers' = Append(pollers, callbackId)
              /\ regOrder' = Append(regOrder, callbackId)
              /\ UNCHANGED <<queue, awk, completions>>
    /\ UNCHANGED <<closed, nextBundle, nextHandle, seals, admitted>>

\* registerCallback that resolves from storage without writing the queue back
registerCallback_keepsStorage(callbackId) ==
    /\ callbackId \in inflight
    /\ inflight' = inflight \ {callbackId}
    /\ clock' = clock + 1
    /\ lastOp' = [op |-> "registerCallback", ok |-> TRUE]
    /\ IF queue # <<>>
         THEN /\ queue' = queue
              /\ ResolveAwakeable(callbackId, Head(queue), "registerCallback")
              /\ UNCHANGED <<pollers, regOrder>>
         ELSE IF closed
           THEN /\ RejectAwakeable(callbackId, "registerCallback")
                /\ UNCHANGED <<queue, pollers, regOrder>>
           ELSE /\ pollers' = Append(pollers, callbackId)
                /\ regOrder' = Append(regOrder, callbackId)
                /\ UNCHANGED <<queue, awk, completions>>
    /\ UNCHANGED <<closed, nextBundle, nextHandle, seals, admitted>>

\* registerCallback (exclusive) for a message sent by pollBundle
registerCallback(callbackId) ==
    /\ callbackId \in inflight
    /\ inflight' = inflight \ {callbackId}
    /\ clock' = clock + 1
    /\ lastOp' = [op |-> "registerCallback", ok |-> TRUE]
    /\ IF queue # <<>>
         THEN \* something is in the queue right now
              /\ queue' = Tail(queue)
              /\ ResolveAwakeable(callbackId, Head(queue), "registerCallback")
              /\ UNCHANGED <<pollers, regOrder>>
         ELSE IF closed
           THEN \* nothing will ever come
                /\ RejectAwakeable(callbackId, "registerCallback")
                /\ UNCHANGED <<queue, pollers, regOrder>>
           ELSE \* remember the callback for the poller
                /\ pollers' = Append(pollers, callbackId)
                /\ regOrder' = Append(regOrder, callbackId)
                /\ UNCHANGED <<queue, awk, completions>>
    /\ UNCHANGED <<closed, nextBundle, nextHandle, seals, admitted>>

RECURSIVE RejectAll(_, _)
\* the awakeables after rejecting each handle of `waiting` in order
RejectAll(aw, waiting) ==
    IF waiting = <<>> THEN aw
    ELSE RejectAll(Complete(aw, Head(waiting), "rejected", <<>>), Tail(waiting))

RECURSIVE RejectCalls(_, _)
\* the history entries of rejecting each handle of `waiting` in order
RejectCalls(aw, waiting) ==
    IF waiting = <<>> THEN <<>>
    ELSE <<Call(aw, Head(waiting), "reject", <<>>, "seal", TRUE)>>
         \o RejectCalls(Complete(aw, Head(waiting), "rejected", <<>>),
                        Tail(waiting))

\* seal: sets closed, rejects every handle stored in pollers; the stored
\* pollers list is not written
seal ==
    /\ seals < MaxSeals
    /\ seals' = seals + 1
    /\ clock' = clock + 1
    /\ closed' = TRUE
    /\ awk' = RejectAll(awk, pollers)
    /\ completions' = completions \o RejectCalls(awk, pollers)
    /\ lastOp' = [op |-> "seal", ok |-> TRUE]
    /\ UNCHANGED <<queue, pollers, inflight, nextBundle, nextHandle,
                   admitted, regOrder>>

\* ------------------------------------------------------------------------
\*  worker tracker: types and helpers
\* ------------------------------------------------------------------------

HEARTBEAT_INTERVAL == 10000
MAX_MISSED_HEARTBEATS == 5

\* the counters a scheduled makeHeartbeat message carries
HeartbeatCounters == 0..(MAX_MISSED_HEARTBEATS - 1)
\* numbers of consecutive failed probes the history tells apart
HeartbeatRunValues == 0..MAX_MISSED_HEARTBEATS

\* queue names a caller may pass to startWorker (any string is accepted)
QueueNames == {"", "jobs"}
\* worker process locations a caller may pass to startWorker
WorkerLocations == {"proc-1"}

\* the result the worker process reports for a task
ResultOf(t) == [task |-> t, resource |-> "local"]
\* a result whose resource was persisted by persistTaskResult
Persisted(r) == [task |-> r.task, resource |-> "s3"]

\* a bundle of n tasks of which the first k were completed and persisted
\* in an earlier attempt
WorkBundle(n, k) ==
    [tasksToRun |-> [i \in 1..(n - k) |-> k + i],
     completedResouces |-> [i \in 1..k |-> Persisted(ResultOf(i))]]

\* the bundles a pollBundle call of the tracker may return
PollBundles ==
    UNION {{WorkBundle(n, k) : k \in 0..n} : n \in 0..MaxTasks}

\* ctx.get(field) ?? dflt
GetOr(field, dflt) == IF field = <<>> THEN dflt ELSE field[1]

\* ctx.clearAll(): every field absent
NoState ==
    [queueName |-> <<>>, workerProcessLocation |-> <<>>,
     taskInProgress |-> <<>>, pendingTasks |-> <<>>,
     completedTasks |-> <<>>, persistedTasks |-> <<>>]

\* an effect a handler emits: a message sent, a call made, a ctx.run side
\* effect
Eff(e, arg) == [e |-> e, arg |-> arg]

\* the effects of kind e in a sequence of effects
Effects(out, e) == SelectSeq(out, LAMBDA x : x.e = e)

\* the tasks of a sequence of results
RECURSIVE TasksOf(_)
TasksOf(results) ==
    IF results = <<>> THEN <<>>
    ELSE <<Head(results).task>> \o TasksOf(Tail(results))

\* a sequence without its first occurrence of x
RECURSIVE RemoveFirst(_, _)
RemoveFirst(seq, x) ==
    IF seq = <<>> THEN <<>>
    ELSE IF Head(seq) = x THEN Tail(seq)
    ELSE <<Head(seq)>> \o RemoveFirst(Tail(seq), x)

\* the history entry of a bundle received from pollBundle
Own(b, n) == <<[b |-> b, dispatches |-> n]>>

\* one more dispatch for the owned bundle
Dispatched(o, n) ==
    IF o = <<>> THEN o
    ELSE Own(o[1].b, IF o[1].dispatches + n > MaxDispatchCount
                       THEN MaxDispatchCount ELSE o[1].dispatches + n)

\* ------------------------------------------------------------------------
\*  worker tracker: internal functions
\* ------------------------------------------------------------------------

\* initiateNextTask that stores the shortened pendingTasks
initiateNextTask_storesShifted(s) ==
    IF s.pendingTasks = <<>> \/ s.pendingTasks[1] = <<>>
      THEN [ws |-> s, sent |-> <<>>]
      ELSE [ws |-> [s EXCEPT !.taskInProgress = <<Head(s.pendingTasks[1])>>,
                             !.pendingTasks = <<Tail(s.pendingTasks[1])>>],
            sent |-> <<Head(s.pendingTasks[1])>>]

\* initiateNextTask(ctx): takes the head of a copy of pendingTasks, stores
\* it as taskInProgress and sends it to the process; the stored
\* pendingTasks is not written.  Result: the new state and the tasks sent.
initiateNextTask(s) ==
    IF s.pendingTasks = <<>> \/ s.pendingTasks[1] = <<>>
      THEN [ws |-> s, sent |-> <<>>]
      ELSE [ws |-> [s EXCEPT !.taskInProgress = <<Head(s.pendingTasks[1])>>],
            sent |-> <<Head(s.pendingTasks[1])>>]

\* checkNotAlreadyStarted(ctx) passes: the stored queueName is falsy
\* (absent or the empty string)
checkNotAlreadyStarted(s) == s.queueName = <<>> \/ s.queueName[1] = ""

\* the dispatch effects of the tasks sent
DispatchEffects(sent) == [i \in 1..Len(sent) |-> Eff("dispatch", sent[i])]

\* ------------------------------------------------------------------------
\*  worker tracker: handlers
\* ------------------------------------------------------------------------

\* startWorker up to the await of pollBundle: the handler keeps the key
startWorker(queueName, worker) ==
    /\ wpc = "idle"
    /\ starts < MaxStarts
    /\ starts' = starts + 1
    /\ IF ~checkNotAlreadyStarted(ws)
         THEN \* TerminalError("Worker already started")
              /\ wlast' = [op |-> "startWorker", ok |-> FALSE, out |-> <<>>]
              /\ UNCHANGED <<ws, wpc, hbs, started, hbRuns>>
         ELSE /\ ws' = [ws EXCEPT !.queueName = <<queueName>>,
                                  !.workerProcessLocation = <<worker>>]
              /\ hbs' = [hbs EXCEPT ![0] = @ + 1]
              /\ hbRuns' = [hbRuns EXCEPT ![<<0, 0>>] = @ + 1]
              /\ wpc' = "startWorker_poll"
              /\ started' = TRUE
              /\ wlast' = [op |-> "startWorker", ok |-> TRUE,
                           out |-> <<Eff("makeHeartbeat", 0),
                                     Eff("pollBundle", queueName)>>]
    /\ UNCHANGED <<rfPending, proc, owned, finished>>

\* the handler that awaits pollBundle
PollingHandler == IF wpc = "startWorker_poll" THEN "startWorker"
                                              ELSE "taskComplete"

\* the awaited pollBundle returns bundle: the rest of startWorker
\* (lines 55-58) or of taskComplete (lines 109-112)
pollReturns(bundle) ==
    /\ wpc \in {"startWorker_poll", "taskComplete_poll"}
    /\ LET s1 == [ws EXCEPT !.pendingTasks = <<bundle.tasksToRun>>,
                            !.persistedTasks = <<bundle.completedResouces>>]
           r == initiateNextTask(s1)
       IN /\ ws' = r.ws
          /\ proc' = proc \o r.sent
          /\ owned' = Own(bundle, Len(r.sent))
          /\ finished' = <<>>
          /\ wlast' = [op |-> PollingHandler, ok |-> TRUE,
                       out |-> DispatchEffects(r.sent)]
    /\ wpc' = "idle"
    /\ UNCHANGED <<hbs, rfPending, starts, started, hbRuns>>

\* the awaited pollBundle is rejected (queue closed): the TerminalError is
\* not caught, the handler ends with it and keeps what it stored
pollRejects ==
    /\ wpc \in {"startWorker_poll", "taskComplete_poll"}
    /\ wpc' = "idle"
    /\ wlast' = [op |-> PollingHandler, ok |-> FALSE, out |-> <<>>]
    /\ UNCHANGED <<ws, hbs, rfPending, proc, starts, owned, finished, started,
                   hbRuns>>

\* taskComplete that notifies the sink although persisting failed
taskComplete_notifiesOnFailure(taskResult) ==
    /\ wpc = "idle"
    /\ taskResult.task \in Range(proc)
    /\ LET s1 == [ws EXCEPT !.taskInProgress = <<>>]
           done == RemoveFirst(proc, taskResult.task)
       IN IF s1.pendingTasks = <<>>
            THEN /\ ws' = s1
                 /\ proc' = done
                 /\ wpc' = "taskComplete_stuck"
                 /\ wlast' = [op |-> "taskComplete", ok |-> FALSE, out |-> <<>>]
                 /\ UNCHANGED <<rfPending, owned, finished>>
          ELSE IF Len(s1.pendingTasks[1]) > 0
            THEN \* do next task, if more are available
                 LET r == initiateNextTask(s1)
                 IN /\ ws' = r.ws
                    /\ proc' = done \o r.sent
                    /\ owned' = Dispatched(owned, Len(r.sent))
                    /\ wlast' = [op |-> "taskComplete", ok |-> TRUE,
                                 out |-> DispatchEffects(r.sent)]
                    /\ UNCHANGED <<wpc, rfPending, finished>>
          ELSE \* last task is the final result: persist and notify
               \E persistOk \in BOOLEAN :
                 IF persistOk
                   THEN /\ ws' = [s1 EXCEPT !.pendingTasks = <<>>,
                                            !.completedTasks = <<>>,
                                            !.persistedTasks = <<>>]
                        /\ proc' = done
                        /\ wpc' = "taskComplete_poll"
                        /\ owned' = <<>>
                        /\ finished' = owned
                        /\ wlast' = [op |-> "taskComplete", ok |-> TRUE,
                                     out |-> <<Eff("persist", taskResult),
                                               Eff("notify", taskResult),
                                               Eff("pollBundle", s1.queueName)>>]
                        /\ UNCHANGED rfPending
                   ELSE \* TerminalError caught: message to self
                        /\ ws' = s1
                        /\ proc' = done
                        /\ rfPending' = rfPending + 1
                        /\ wlast' = [op |-> "taskComplete", ok |-> TRUE,
                                     out |-> <<Eff("persistFailed", taskResult),
                                               Eff("notify", taskResult),
                                               Eff("reportFailed", 0)>>]
                        /\ UNCHANGED <<wpc, owned, finished>>
    /\ UNCHANGED <<hbs, starts, started, hbRuns>>

\* taskComplete(taskResult), called by the worker process for a task it was
\* sent.  The result is pushed onto a copy of completedTasks that is never
\* stored.  With pendingTasks absent the handler throws a TypeError, which
\* is not terminal: the invocation is retried for ever and keeps the key.
taskComplete(taskResult) ==
    /\ wpc = "idle"
    /\ taskResult.task \in Range(proc)
    /\ LET s1 == [ws EXCEPT !.taskInProgress = <<>>]
           done == RemoveFirst(proc, taskResult.task)
       IN IF s1.pendingTasks = <<>>
            THEN /\ ws' = s1
                 /\ proc' = done
                 /\ wpc' = "taskComplete_stuck"
                 /\ wlast' = [op |-> "taskComplete", ok |-> FALSE, out |-> <<>>]
                 /\ UNCHANGED <<rfPending, owned, finished>>
          ELSE IF Len(s1.pendingTasks[1]) > 0
            THEN \* do next task, if more are available
                 LET r == initiateNextTask(s1)
                 IN /\ ws' = r.ws
                    /\ proc' = done \o r.sent
                    /\ owned' = Dispatched(owned, Len(r.sent))
                    /\ wlast' = [op |-> "taskComplete", ok |-> TRUE,
                                 out |-> DispatchEffects(r.sent)]
                    /\ UNCHANGED <<wpc, rfPending, finished>>
          ELSE \* last task is the final result: persist and notify
               \E persistOk \in BOOLEAN :
                 IF persistOk
                   THEN /\ ws' = [s1 EXCEPT !.pendingTasks = <<>>,
                                            !.completedTasks = <<>>,
                                            !.persistedTasks = <<>>]
                        /\ proc' = done
                        /\ wpc' = "taskComplete_poll"
                        /\ owned' = <<>>
                        /\ finished' = owned
                        /\ wlast' = [op |-> "taskComplete", ok |-> TRUE,
                                     out |-> <<Eff("persist", taskResult),
                                               Eff("notify", taskResult),
                                               Eff("pollBundle", s1.queueName)>>]
                        /\ UNCHANGED rfPending
                   ELSE \* TerminalError caught: message to self
                        /\ ws' = s1
                        /\ proc' = done
                        /\ rfPending' = rfPending + 1
                        /\ wlast' = [op |-> "taskComplete", ok |-> TRUE,
                                     out |-> <<Eff("persistFailed", taskResult),
                                               Eff("reportFailed", 0)>>]
                        /\ UNCHANGED <<wpc, owned, finished>>
    /\ UNCHANGED <<hbs, starts, started, hbRuns>>

\* checkpointResults that does not reset completedTasks
checkpointResults_keepsCompleted ==
    /\ wpc = "idle"
    /\ LET results == GetOr(ws.completedTasks, <<>>)
           persisted == GetOr(ws.persistedTasks, <<>>)
       IN \E okCount \in 0..Len(results) :
            IF okCount = Len(results)
              THEN /\ ws' = [ws EXCEPT
                              !.persistedTasks =
                                 <<persisted \o [i \in 1..Len(results) |->
                                                   Persisted(results[i])]>>]
                   /\ wlast' = [op |-> "checkpointResults", ok |-> TRUE,
                                out |-> [i \in 1..Len(results) |->
                                           Eff("persist", results[i])]]
              ELSE /\ ws' = ws
                   /\ wlast' = [op |-> "checkpointResults", ok |-> FALSE,
                                out |-> [i \in 1..okCount |->
                                           Eff("persist", results[i])]]
    /\ UNCHANGED <<wpc, hbs, rfPending, proc, starts, owned, finished, started,
                   hbRuns>>

\* checkpointResults that stores only the newly persisted results
checkpointResults_dropsPrevious ==
    /\ wpc = "idle"
    /\ LET results == GetOr(ws.completedTasks, <<>>)
       IN \E okCount \in 0..Len(results) :
            IF okCount = Len(results)
              THEN /\ ws' = [ws EXCEPT
                              !.persistedTasks =
                                 <<[i \in 1..Len(results) |->
                                      Persisted(results[i])]>>,
                              !.completedTasks = << <<>> >>]
                   /\ wlast' = [op |-> "checkpointResults", ok |-> TRUE,
                                out |-> [i \in 1..Len(results) |->
                                           Eff("persist", results[i])]]
              ELSE /\ ws' = ws
                   /\ wlast' = [op |-> "checkpointResults", ok |-> FALSE,
                                out |-> [i \in 1..okCount |->
                                           Eff("persist", results[i])]]
    /\ UNCHANGED <<wpc, hbs, rfPending, proc, starts, owned, finished, started,
                   hbRuns>>

\* checkpointResults that stores each result as soon as it is persisted
checkpointResults_storesEachResult ==
    /\ wpc = "idle"
    /\ LET results == GetOr(ws.completedTasks, <<>>)
           persisted == GetOr(ws.persistedTasks, <<>>)
       IN \E okCount \in 0..Len(results) :
            /\ ws' = [ws EXCEPT
                        !.persistedTasks =
                           <<persisted \o [i \in 1..okCount |->
                                             Persisted(results[i])]>>,
                        !.completedTasks =
                           <<SubSeq(results, okCount + 1, Len(results))>>]
            /\ wlast' = [op |-> "checkpointResults",
                         ok |-> (okCount = Len(results)),
                         out |-> [i \in 1..okCount |->
                                    Eff("persist", results[i])]]
    /\ UNCHANGED <<wpc, hbs, rfPending, proc, starts, owned, finished, started,
                   hbRuns>>

\* checkpointResults: persists the stored completedTasks one by one; the
\* state is written after the loop, so a terminal persist failure (the
\* persist number okCount + 1) leaves it as it was
checkpointResults ==
    /\ wpc = "idle"
    /\ LET results == GetOr(ws.completedTasks, <<>>)
           persisted == GetOr(ws.persistedTasks, <<>>)
       IN \E okCount \in 0..Len(results) :
            IF okCount = Len(results)
              THEN /\ ws' = [ws EXCEPT
                              !.persistedTasks =
                                 <<persisted \o [i \in 1..Len(results) |->
                                                   Persisted(results[i])]>>,
                              !.completedTasks = << <<>> >>]
                   /\ wlast' = [op |-> "checkpointResults", ok |-> TRUE,
                                out |-> [i \in 1..Len(results) |->
                                           Eff("persist", results[i])]]
              ELSE /\ ws' = ws
                   /\ wlast' = [op |-> "checkpointResults", ok |-> FALSE,
                                out |-> [i \in 1..okCount |->
                                           Eff("persist", results[i])]]
    /\ UNCHANGED <<wpc, hbs, rfPending, proc, starts, owned, finished, started,
                   hbRuns>>

\* the pushed-back bundle without the persisted results
FailedBundle_dropsPersisted(s) ==
    [tasksToRun |-> TasksOf(GetOr(s.completedTasks, <<>>))
                      \o GetOr(s.pendingTasks, <<>>),
     completedResouces |-> <<>>]

\* the bundle reportFailed pushes back, from the stored state s
FailedBundle(s) ==
    [tasksToRun |-> TasksOf(GetOr(s.completedTasks, <<>>))
                      \o GetOr(s.pendingTasks, <<>>),
     completedResouces |-> GetOr(s.persistedTasks, <<>>)]

\* reportFailed that clears every field except queueName
reportFailed_keepsQueueName(fromSelf) ==
    /\ wpc = "idle"
    /\ IF fromSelf THEN rfPending > 0 /\ rfPending' = rfPending - 1
                   ELSE rfPending' = rfPending
    /\ wlast' = [op |-> "reportFailed", ok |-> TRUE,
                 out |-> <<Eff("pushBackBundle",
                               [queueName |-> ws.queueName,
                                end |-> HEAD,
                                bundle |-> FailedBundle(ws)]),
                           Eff("kill", ws.workerProcessLocation)>>]
    /\ ws' = [NoState EXCEPT !.queueName = ws.queueName]
    /\ owned' = <<>>
    /\ started' = FALSE
    /\ UNCHANGED <<wpc, hbs, proc, starts, finished, hbRuns>>

\* reportFailed, run for a message the tracker sent to itself (fromSelf) or
\* for a call of another caller
reportFailed(fromSelf) ==
    /\ wpc = "idle"
    /\ IF fromSelf THEN rfPending > 0 /\ rfPending' = rfPending - 1
                   ELSE rfPending' = rfPending
    /\ wlast' = [op |-> "reportFailed", ok |-> TRUE,
                 out |-> <<Eff("pushBackBundle",
                               [queueName |-> ws.queueName,
                                end |-> HEAD,
                                bundle |-> FailedBundle(ws)]),
                           Eff("kill", ws.workerProcessLocation)>>]
    /\ ws' = NoState
    /\ owned' = <<>>
    /\ started' = FALSE
    /\ UNCHANGED <<wpc, hbs, proc, starts, finished, hbRuns>>

\* the history of the chain whose message makeHeartbeat(numMissedSoFar)
\* consumed: r failed probes in a row before this one; the successor if one
\* was scheduled follows 0 failed probes after a success, r + 1 otherwise
HeartbeatHistory(numMissedSoFar, success) ==
    \E r \in HeartbeatRunValues :
        /\ hbRuns[<<numMissedSoFar, r>>] > 0
        /\ LET successor == Effects(wlast'.out, "makeHeartbeat")
               run == IF success THEN 0
                      ELSE IF r + 1 > MAX_MISSED_HEARTBEATS
                        THEN MAX_MISSED_HEARTBEATS ELSE r + 1
               rest == [hbRuns EXCEPT ![<<numMissedSoFar, r>>] = @ - 1]
           IN hbRuns' = IF successor = <<>> THEN rest
                        ELSE [rest EXCEPT ![<<successor[1].arg, run>>] = @ + 1]

\* makeHeartbeat that at the threshold also schedules a successor
makeHeartbeat_reschedulesAtThreshold(numMissedSoFar, success) ==
    /\ hbs[numMissedSoFar] > 0
    /\ LET missed == IF success THEN 0 ELSE numMissedSoFar + 1
           rest == [hbs EXCEPT ![numMissedSoFar] = @ - 1]
       IN IF missed >= MAX_MISSED_HEARTBEATS
            THEN /\ hbs' = [rest EXCEPT ![0] = @ + 1]
                 /\ rfPending' = rfPending + 1
                 /\ wlast' = [op |-> "makeHeartbeat", ok |-> TRUE,
                              out |-> <<Eff("reportFailed", 0),
                                        Eff("makeHeartbeat", 0)>>]
            ELSE /\ hbs' = [rest EXCEPT ![missed] = @ + 1]
                 /\ rfPending' = rfPending
                 /\ wlast' = [op |-> "makeHeartbeat", ok |-> TRUE,
                              out |-> <<Eff("makeHeartbeat", missed)>>]
    /\ HeartbeatHistory(numMissedSoFar, success)
    /\ UNCHANGED <<ws, wpc, proc, starts, owned, finished, started>>

\* makeHeartbeat that counts every probe as a miss
makeHeartbeat_noReset(numMissedSoFar, success) ==
    /\ hbs[numMissedSoFar] > 0
    /\ LET missed == numMissedSoFar + 1
           rest == [hbs EXCEPT ![numMissedSoFar] = @ - 1]
       IN IF missed >= MAX_MISSED_HEARTBEATS
            THEN /\ hbs' = rest
                 /\ rfPending' = rfPending + 1
                 /\ wlast' = [op |-> "makeHeartbeat", ok |-> TRUE,
                              out |-> <<Eff("reportFailed", 0)>>]
            ELSE /\ hbs' = [rest EXCEPT ![missed] = @ + 1]
                 /\ rfPending' = rfPending
                 /\ wlast' = [op |-> "makeHeartbeat", ok |-> TRUE,
                              out |-> <<Eff("makeHeartbeat", missed)>>]
    /\ HeartbeatHistory(numMissedSoFar, success)
    /\ UNCHANGED <<ws, wpc, proc, starts, owned, finished, started>>

\* makeHeartbeat(numMissedSoFar) (shared), run for a scheduled message;
\* success is the outcome of the liveness probe
makeHeartbeat(numMissedSoFar, success) ==
    /\ hbs[numMissedSoFar] > 0
    /\ LET missed == IF success THEN 0 ELSE numMissedSoFar + 1
           rest == [hbs EXCEPT ![numMissedSoFar] = @ - 1]
       IN IF missed >= MAX_MISSED_HEARTBEATS
            THEN /\ hbs' = rest
                 /\ rfPending' = rfPending + 1
                 /\ wlast' = [op |-> "makeHeartbeat", ok |-> TRUE,
                              out |-> <<Eff("reportFailed", 0)>>]
            ELSE /\ hbs' = [rest EXCEPT ![missed] = @ + 1]
                 /\ rfPending' = rfPending
                 /\ wlast' = [op |-> "makeHeartbeat", ok |-> TRUE,
                              out |-> <<Eff("makeHeartbeat", missed)>>]
    /\ HeartbeatHistory(numMissedSoFar, success)
    /\ UNCHANGED <<ws, wpc, proc, starts, owned, finished, started>>

\* ------------------------------------------------------------------------
\*  specification
\* ------------------------------------------------------------------------

Init ==
    /\ closed = FALSE
    /\ queue = <<>>
    /\ pollers = <<>>
    /\ awk = [h \in Handles |-> [st |-> "unused", val |-> <<>>]]
    /\ inflight = {}
    /\ nextBundle = 1
    /\ nextHandle = 1
    /\ seals = 0
    /\ clock = 0
    /\ lastOp = [op |-> "none", ok |-> TRUE]
    /\ admitted = <<>>
    /\ completions = <<>>
    /\ regOrder = <<>>
    /\ ws = NoState
    /\ wpc = "idle"
    /\ hbs = [n \in 0..(MAX_MISSED_HEARTBEATS - 1) |-> 0]
    /\ rfPending = 0
    /\ proc = <<>>
    /\ starts = 0
    /\ wlast = [op |-> "none", ok |-> TRUE, out |-> <<>>]
    /\ owned = <<>>
    /\ finished = <<>>
    /\ started = FALSE
    /\ hbRuns = [c \in HeartbeatCounters \X HeartbeatRunValues |-> 0]

\* the queue on its own
Next ==
    \/ \E b \in FreshBundles : addBundle(b) /\ UNCHANGED wvars
    \/ \E b \in FreshBundles : pushBackBundle(b) /\ UNCHANGED wvars
    \/ pollBundle /\ UNCHANGED wvars
    \/ \E h \in Handles : registerCallback(h) /\ UNCHANGED wvars
    \/ seal /\ UNCHANGED wvars

Spec == Init /\ [][Next]_vars

\* the worker process completes a task it was sent
ProcessCompletes == \E t \in Range(proc) : taskComplete(ResultOf(t))

\* a scheduled heartbeat runs
HeartbeatRuns ==
    \E n \in 0..(MAX_MISSED_HEARTBEATS - 1), success \in BOOLEAN :
        makeHeartbeat(n, success)

\* the worker tracker on its own: the queue is its environment, which
\* answers a pollBundle with any bundle, rejects it, or leaves it waiting
WorkerNext ==
    \/ \E q \in QueueNames, w \in WorkerLocations :
          startWorker(q, w) /\ UNCHANGED qvars
    \/ \E b \in PollBundles : pollReturns(b) /\ UNCHANGED qvars
    \/ pollRejects /\ UNCHANGED qvars
    \/ ProcessCompletes /\ UNCHANGED qvars
    \/ checkpointResults /\ UNCHANGED qvars
    \/ \E fromSelf \in BOOLEAN : reportFailed(fromSelf) /\ UNCHANGED qvars
    \/ HeartbeatRuns /\ UNCHANGED qvars

WorkerSpec == Init /\ [][WorkerNext]_vars

\* messages in flight are delivered and a live process reports every task
WorkerFairSpec ==
    /\ WorkerSpec
    /\ WF_vars(ProcessCompletes /\ UNCHANGED qvars)
    /\ WF_vars(reportFailed(TRUE) /\ UNCHANGED qvars)
    /\ WF_vars(HeartbeatRuns /\ UNCHANGED qvars)

\* the results of tasks from..to, as the process reports them
ResultsOf(from, to) == [i \in 1..(to - from + 1) |-> ResultOf(from + i - 1)]

\* the tasks from..to
TasksFrom(from, to) == [i \in 1..(to - from + 1) |-> from + i - 1]

\* the WorkerState of a tracker in the middle of a bundle of n tasks: the
\* results of the first k are persisted, those of the next j are completed
\* and not persisted, the next task is in progress if running, the rest
\* is pending
MidBundleState(n, k, j, running) ==
    [queueName |-> <<"jobs">>,
     workerProcessLocation |-> <<"proc-1">>,
     taskInProgress |-> IF running THEN <<k + j + 1>> ELSE <<>>,
     pendingTasks |-> <<TasksFrom(k + j + (IF running THEN 2 ELSE 1), n)>>,
     completedTasks |-> <<ResultsOf(k + 1, k + j)>>,
     persistedTasks |-> <<[i \in 1..k |-> Persisted(ResultOf(i))]>>]

\* the tracker on its own, started in any WorkerState of a bundle in
\* progress: the handlers as functions of the stored state
MidBundleInit ==
    \E n \in 0..MaxTasks, k \in 0..MaxTasks, j \in 0..MaxTasks,
       running \in BOOLEAN :
        /\ k + j + (IF running THEN 1 ELSE 0) <= n
        /\ closed = FALSE
        /\ queue = <<>>
        /\ pollers = <<>>
        /\ awk = [h \in Handles |-> [st |-> "unused", val |-> <<>>]]
        /\ inflight = {}
        /\ nextBundle = 1
        /\ nextHandle = 1
        /\ seals = 0
        /\ clock = 0
        /\ lastOp = [op |-> "none", ok |-> TRUE]
        /\ admitted = <<>>
        /\ completions = <<>>
        /\ regOrder = <<>>
        /\ ws = MidBundleState(n, k, j, running)
        /\ wpc = "idle"
        /\ hbs = [c \in HeartbeatCounters |-> 0]
        /\ rfPending = 0
        /\ proc = IF running THEN <<k + j + 1>> ELSE <<>>
        /\ starts = 1
        /\ wlast = [op |-> "none", ok |-> TRUE, out |-> <<>>]
        /\ owned = Own(WorkBundle(n, k), j + (IF running THEN 1 ELSE 0))
        /\ finished = <<>>
        /\ started = TRUE
        /\ hbRuns = [c \in HeartbeatCounters \X HeartbeatRunValues |-> 0]

MidBundleNext ==
    \/ ProcessCompletes /\ UNCHANGED qvars
    \/ checkpointResults /\ UNCHANGED qvars
    \/ \E fromSelf \in BOOLEAN : reportFailed(fromSelf) /\ UNCHANGED qvars
    \/ \E b \in PollBundles : pollReturns(b) /\ UNCHANGED qvars
    \/ pollRejects /\ UNCHANGED qvars

MidBundleSpec == MidBundleInit /\ [][MidBundleNext]_vars

\* ------------------------------------------------------------------------
\*  derived notions used by the properties
\* ------------------------------------------------------------------------

AdmIdx == 1..Len(admitted)
ComIdx == 1..Len(completions)

\* positions of the completions that resolved a still-pending handle with b
DeliveredIdx(b) ==
    {i \in ComIdx : /\ completions[i].kind = "resolve"
                    /\ completions[i].val = <<b>>
                    /\ completions[i].pending}

Delivered(b) == DeliveredIdx(b) # {}

\* b1 has been delivered, and before every delivery of b2
DeliveredBefore(b1, b2) ==
    \E i \in DeliveredIdx(b1) : \A j \in DeliveredIdx(b2) : i < j

\* b had not been delivered when handler invocation number t ran
UndeliveredAt(b, t) == \A i \in DeliveredIdx(b) : completions[i].at > t

InStorage(b) == b \in Range(queue)

Handoffs == SelectSeq(completions, LAMBDA c : c.by = "enqueue")
DirectAdmits == SelectSeq(admitted, LAMBDA a : a.direct)

\* ------------------------------------------------------------------------
\*  properties
\* ------------------------------------------------------------------------

\* C1: hand-off invariant - after any sequence of addBundle, pushBackBundle,
\* registerCallback and seal, the stored queue and the stored pollers are
\* never both non-empty.
HandOffInvariant == ~(queue # <<>> /\ pollers # <<>>)

\* C1 witness: a closed queue that accepted a bundle and still holds pollers
HandOffInvariantWitness ==
    closed /\ pollers # <<>> /\ Len(admitted) > 0 /\ Len(regOrder) > 1

\* C2: no work is silently lost - every accepted bundle is still in storage
\* or was used to resolve a handle that was pending at that moment.
NoWorkLost ==
    \A i \in AdmIdx : InStorage(admitted[i].b) \/ Delivered(admitted[i].b)

\* C3: a bundle pushed back after seal is in storage or was resolved to a
\* still-pending poller, so that a poll can obtain it.
PushBackAfterSealDeliverable ==
    \A i \in AdmIdx :
        (admitted[i].end = HEAD /\ admitted[i].closed)
            => (InStorage(admitted[i].b) \/ Delivered(admitted[i].b))

\* C4: tail FIFO - of two bundles admitted by addBundle, the later one is
\* never delivered unless the earlier one was delivered before it.
TailFifo ==
    \A i, j \in AdmIdx :
        (/\ i < j
         /\ admitted[i].end = TAIL
         /\ admitted[j].end = TAIL
         /\ Delivered(admitted[j].b))
            => DeliveredBefore(admitted[i].b, admitted[j].b)

\* C4 witness: two stored addBundle bundles, both delivered
TailFifoWitness ==
    \E i, j \in AdmIdx :
        /\ i < j
        /\ admitted[i].end = TAIL /\ admitted[j].end = TAIL
        /\ ~admitted[i].direct /\ ~admitted[j].direct
        /\ Delivered(admitted[i].b) /\ Delivered(admitted[j].b)

\* C5: push-back priority - a bundle inserted by pushBackBundle is delivered
\* before every addBundle bundle that was undelivered at the push-back.
PushBackPriority ==
    \A t, p \in AdmIdx :
        (/\ t < p
         /\ admitted[t].end = TAIL
         /\ admitted[p].end = HEAD
         /\ UndeliveredAt(admitted[t].b, admitted[p].at)
         /\ Delivered(admitted[t].b))
            => DeliveredBefore(admitted[p].b, admitted[t].b)

\* C5 witness: an addBundle bundle overtaken by a later push-back, both
\* delivered
PushBackPriorityWitness ==
    \E t, p \in AdmIdx :
        /\ t < p
        /\ admitted[t].end = TAIL /\ admitted[p].end = HEAD
        /\ UndeliveredAt(admitted[t].b, admitted[p].at)
        /\ Delivered(admitted[t].b) /\ Delivered(admitted[p].b)

\* two push-backs, both stored, the first undelivered at the second
TwoStoredPushBacks(i, j) ==
    /\ i < j
    /\ admitted[i].end = HEAD /\ admitted[j].end = HEAD
    /\ ~admitted[i].direct /\ ~admitted[j].direct
    /\ UndeliveredAt(admitted[i].b, admitted[j].at)

\* C6 as stated: of two stored push-backs P1 then P2, P1 is delivered
\* before P2.
HeadFifo ==
    \A i, j \in AdmIdx :
        (TwoStoredPushBacks(i, j) /\ Delivered(admitted[j].b))
            => DeliveredBefore(admitted[i].b, admitted[j].b)

\* C6 amended: of two stored push-backs P1 then P2, the later P2 is
\* delivered before P1 (head insertions are served last-in first-out).
HeadLifo ==
    \A i, j \in AdmIdx :
        (TwoStoredPushBacks(i, j) /\ Delivered(admitted[i].b))
            => DeliveredBefore(admitted[j].b, admitted[i].b)

\* C6 witness: two stored push-backs, both delivered
HeadLifoWitness ==
    \E i, j \in AdmIdx :
        /\ TwoStoredPushBacks(i, j)
        /\ Delivered(admitted[i].b) /\ Delivered(admitted[j].b)

SealRejectsExactlyWaiting ==
    /\ \A i \in ComIdx : completions[i].by = "seal" => completions[i].pending
    /\ closed => \A h \in Range(regOrder) : awk[h].st # "pending"

\* C9: registerCallback on a closed queue settles its handle within the
\* call - rejected when storage is empty, resolved with the head bundle
\* otherwise - and does not append it to pollers.
RegisterOnClosedSettles ==
    [][\A h \in Handles :
         (closed /\ registerCallback(h)) =>
            /\ pollers' = pollers
            /\ awk'[h] = IF queue = <<>>
                           THEN [st |-> "rejected", val |-> <<>>]
                           ELSE [st |-> "resolved", val |-> <<Head(queue)>>]
            /\ queue' = IF queue = <<>> THEN queue ELSE Tail(queue)]_vars

\* C9 witness: registerCallback calls on a closed queue, one rejected and
\* one resolved from storage
RegisterOnClosedSettlesWitness ==
    /\ \E i \in ComIdx : /\ completions[i].by = "registerCallback"
                         /\ completions[i].closed
                         /\ completions[i].kind = "reject"
    /\ \E i \in ComIdx : /\ completions[i].by = "registerCallback"
                         /\ completions[i].closed
                         /\ completions[i].kind = "resolve"

\* C10: closed is one-way, and addBundle on a closed queue fails with the
\* terminal error, leaves queue and pollers unchanged and completes no
\* awakeable.
ClosedIsTerminal ==
    [][/\ closed => closed'
       /\ \A b \in FreshBundles :
            (closed /\ addBundle(b)) =>
                /\ lastOp' = [op |-> "addBundle", ok |-> FALSE]
                /\ UNCHANGED <<queue, pollers, awk, completions, admitted>>
      ]_vars

\* C10 witness: an addBundle that failed on a sealed queue that still holds
\* pollers
ClosedIsTerminalWitness ==
    /\ closed
    /\ lastOp = [op |-> "addBundle", ok |-> FALSE]
    /\ pollers # <<>>

\* C11: a handle is settled at most once - no handle id is the target of
\* more than one resolveAwakeable / rejectAwakeable call of the queue.
SettledAtMostOnce ==
    \A i, j \in ComIdx : i # j => completions[i].h # completions[j].h

\* the last accepted bundle was stored by addBundle into empty storage and
\* no exclusive handler has run since
JustStoredByAdd ==
    /\ Len(admitted) > 0
    /\ admitted[Len(admitted)].end = TAIL
    /\ ~admitted[Len(admitted)].direct
    /\ admitted[Len(admitted)].at = clock
    /\ Len(queue) = 1

\* C12: store-then-poll round trip - addBundle on an open queue with empty
\* storage and no pollers stores the bundle and completes no handle; the
\* next poll's registerCallback resolves its handle with exactly that
\* bundle and leaves storage empty.
StoreThenPoll ==
    [][/\ \A b \in FreshBundles :
            (~closed /\ queue = <<>> /\ pollers = <<>> /\ addBundle(b)) =>
                /\ queue' = <<b>>
                /\ UNCHANGED <<pollers, awk, completions>>
       /\ \A h \in Handles :
            (JustStoredByAdd /\ registerCallback(h)) =>
                /\ awk'[h] = [st |-> "resolved",
                              val |-> <<admitted[Len(admitted)].b>>]
                /\ queue' = <<>>
                /\ pollers' = pollers
      ]_vars

\* C12 witness: a bundle stored by addBundle into an empty queue was
\* handed to the next poll, storage is empty again
StoreThenPollWitness ==
    /\ lastOp.op = "registerCallback"
    /\ queue = <<>>
    /\ Len(admitted) > 0 /\ Len(completions) > 0
    /\ admitted[Len(admitted)].end = TAIL
    /\ ~admitted[Len(admitted)].direct
    /\ admitted[Len(admitted)].at = clock - 1
    /\ completions[Len(completions)].at = clock
    /\ completions[Len(completions)].by = "registerCallback"
    /\ completions[Len(completions)].val = <<admitted[Len(admitted)].b>>

\* C13: direct hand-off bypasses storage - whenever addBundle or
\* pushBackBundle runs while pollers is non-empty, the oldest poller is
\* resolved with the bundle, pollers loses exactly that entry and the
\* stored queue stays empty.
DirectHandOff ==
    [][\A b \in FreshBundles :
         (pollers # <<>> /\ (addBundle(b) \/ pushBackBundle(b))) =>
            /\ awk'[Head(pollers)] = [st |-> "resolved", val |-> <<b>>]
            /\ pollers' = Tail(pollers)
            /\ queue = <<>>
            /\ queue' = queue
      ]_vars

\* ------------------------------------------------------------------------
\*  worker tracker: derived notions and properties
\* ------------------------------------------------------------------------

\* the position of task t in a sequence of distinct tasks, 0 if absent
PositionOf(t, tasks) ==
    IF t \in Range(tasks) THEN CHOOSE i \in 1..Len(tasks) : tasks[i] = t
                          ELSE 0

\* the pushBackBundle messages among the effects of the last step
PushedBack == Effects(wlast.out, "pushBackBundle")

\* C14: a startWorker on an already started tracker (no reportFailed in
\* between) fails with the terminal error, leaves the state unchanged,
\* schedules no heartbeat and issues no pollBundle, whatever queueName the
\* first startWorker stored.
AlreadyStartedFails ==
    [][\A q \in QueueNames, w \in WorkerLocations :
         (started /\ startWorker(q, w)) =>
            /\ wlast' = [op |-> "startWorker", ok |-> FALSE, out |-> <<>>]
            /\ UNCHANGED <<ws, wpc, hbs>>
      ]_vars

\* C15: partition invariant - while the tracker owns a bundle and no
\* handler is running, completedTasks' tasks, then taskInProgress, then
\* pendingTasks is exactly the tasksToRun of the owned bundle.
PartitionInvariant ==
    (owned # <<>> /\ wpc = "idle") =>
        /\ Len(ws.taskInProgress) <= 1
        /\ TasksOf(GetOr(ws.completedTasks, <<>>))
             \o ws.taskInProgress
             \o GetOr(ws.pendingTasks, <<>>)
           = owned[1].b.tasksToRun

\* C16: mid-bundle completion - when the task in progress is not the last
\* of the owned bundle, taskComplete of its result dispatches the task
\* that follows it in the bundle and issues no pollBundle.
MidBundleDispatchesNext ==
    [][\A t \in Range(proc) :
         (/\ owned # <<>>
          /\ ws.taskInProgress = <<t>>
          /\ PositionOf(t, owned[1].b.tasksToRun) \in
                1..(Len(owned[1].b.tasksToRun) - 1)
          /\ taskComplete(ResultOf(t)))
            => /\ Effects(wlast'.out, "dispatch")
                   = <<Eff("dispatch",
                           owned[1].b.tasksToRun[
                               PositionOf(t, owned[1].b.tasksToRun) + 1])>>
               /\ Effects(wlast'.out, "pollBundle") = <<>>
      ]_vars

\* C17: bundle finalization - with pendingTasks = [T1], T1 dispatched and
\* nothing completed, taskComplete(result_T1) with persistence succeeding
\* persists the result, notifies the sink, clears pendingTasks,
\* completedTasks and persistedTasks and polls the next bundle.
BundleFinalization ==
    [][\A t \in Range(proc) :
         (/\ owned # <<>>
          /\ owned[1].b.tasksToRun = <<t>>
          /\ ws.taskInProgress = <<t>>
          /\ ws.pendingTasks = << <<t>> >>
          /\ GetOr(ws.completedTasks, <<>>) = <<>>
          /\ taskComplete(ResultOf(t)))
            => \/ Effects(wlast'.out, "persistFailed") # <<>>
               \/ /\ wlast'.out = <<Eff("persist", ResultOf(t)),
                                    Eff("notify", ResultOf(t)),
                                    Eff("pollBundle", ws.queueName)>>
                  /\ ws'.pendingTasks = <<>>
                  /\ ws'.completedTasks = <<>>
                  /\ ws'.persistedTasks = <<>>
      ]_vars

\* C18: bundle progress - a tracker that received a bundle of n >= 1 tasks
\* eventually finalizes it (sink notified, next bundle polled) after
\* exactly n dispatches, unless the bundle was taken from it by a recovery
\* or a restart.
BundleProgress ==
    \A b \in PollBundles :
        (Len(b.tasksToRun) >= 1 /\ wpc = "idle" /\ owned = Own(b, 1))
            ~> \/ finished = Own(b, Len(b.tasksToRun))
               \/ owned = <<>>
               \/ owned[1].b # b
               \/ wpc = "startWorker_poll"

NoTaskLostOnFailure ==
    [][\A fromSelf \in BOOLEAN :
         (owned # <<>> /\ reportFailed(fromSelf)) =>
            LET sent == Effects(wlast'.out, "pushBackBundle")
                kept == Range(sent[1].arg.bundle.tasksToRun) \cup
                        Range(TasksOf(sent[1].arg.bundle.completedResouces))
            IN /\ Len(sent) = 1
               /\ Range(owned[1].b.tasksToRun) \subseteq kept
      ]_vars

\* C20 witness: reportFailed ran after a task of a two-task bundle had been
\* completed and the next dispatch was outstanding
NoTaskLostOnFailureWitness ==
    /\ wlast.op = "reportFailed"
    /\ Len(PushedBack) = 1
    /\ Len(PushedBack[1].arg.bundle.tasksToRun) >= 2
    /\ Len(proc) >= 1

\* the number of scheduled makeHeartbeat messages in h
RECURSIVE ScheduledFrom(_, _)
ScheduledFrom(h, n) ==
    IF n >= MAX_MISSED_HEARTBEATS THEN 0 ELSE h[n] + ScheduledFrom(h, n + 1)

Scheduled(h) == ScheduledFrom(h, 0)

\* the message makeHeartbeat(n) consumes may follow r failed probes in a row
MayFollow(n, r) == hbRuns[<<n, r>>] > 0

\* C21: the makeHeartbeat invocation whose failed probe is the fifth in a
\* row sends one reportFailed message and schedules no successor; every
\* other invocation of a chain sends no reportFailed.
ThresholdReportsOnce ==
    [][\A n \in HeartbeatCounters, success \in BOOLEAN :
         makeHeartbeat(n, success) =>
            IF /\ ~success
               /\ \E r \in HeartbeatRunValues :
                     MayFollow(n, r) /\ r + 1 >= MAX_MISSED_HEARTBEATS
              THEN /\ Len(Effects(wlast'.out, "reportFailed")) = 1
                   /\ Effects(wlast'.out, "makeHeartbeat") = <<>>
                   /\ rfPending' = rfPending + 1
                   /\ Scheduled(hbs') = Scheduled(hbs) - 1
              ELSE /\ Effects(wlast'.out, "reportFailed") = <<>>
                   /\ rfPending' = rfPending
                   /\ Scheduled(hbs') = Scheduled(hbs)
      ]_vars

\* C21 witness: the only chain of a started tracker ended with one
\* reportFailed message after its fifth failed probe in a row
ThresholdReportsOnceWitness ==
    /\ started
    /\ wlast.op = "makeHeartbeat"
    /\ wlast.out = <<Eff("reportFailed", 0)>>
    /\ rfPending = 1
    /\ Scheduled(hbs) = 0

\* C22: at most one live heartbeat chain - the number of scheduled
\* makeHeartbeat messages that have not run yet is at most 1.
AtMostOneHeartbeatChain == Scheduled(hbs) <= 1

\* the results whose persisting failed in the last step
PersistFailed == Effects(wlast.out, "persistFailed")

\* C23: a terminal persistence failure at finalization does not fail
\* taskComplete: it returns normally and sends one reportFailed to the
\* tracker itself, and the reportFailed that then runs pushes back, to the
\* head of the originating queue, a bundle whose tasksToRun contain the
\* task of the result that failed to persist.
PersistFailureRecovers ==
    [][/\ \A t \in Range(proc) :
            (/\ taskComplete(ResultOf(t))
             /\ Effects(wlast'.out, "persistFailed") # <<>>)
                => /\ wlast'.ok
                   /\ Len(Effects(wlast'.out, "reportFailed")) = 1
                   /\ rfPending' = rfPending + 1
       /\ \A fromSelf \in BOOLEAN :
            (/\ wlast.op = "taskComplete"
             /\ PersistFailed # <<>>
             /\ reportFailed(fromSelf))
                => LET sent == Effects(wlast'.out, "pushBackBundle")
                   IN /\ Len(sent) = 1
                      /\ sent[1].arg.queueName = ws.queueName
                      /\ sent[1].arg.end = HEAD
                      /\ PersistFailed[1].arg.task
                            \in Range(sent[1].arg.bundle.tasksToRun)
      ]_vars

\* makeHeartbeat sent reportFailed in the last step: the process is deemed
\* dead
DeemedDead ==
    wlast.op = "makeHeartbeat" /\ Effects(wlast.out, "reportFailed") # <<>>

\* C24: recovery is reachable from any state - once a heartbeat chain has
\* reached the threshold, reportFailed eventually runs and leaves the
\* tracker NotStarted, also while startWorker or taskComplete waits for
\* pollBundle.
RecoveryReachable ==
    DeemedDead ~> (wlast.op = "reportFailed" /\ ws = NoState)

\* the step a checkpointResults call would take is the idempotent one
CheckpointAgainChangesNothing ==
    ~ENABLED (/\ checkpointResults
              /\ ~(/\ wlast'.ok
                   /\ Effects(wlast'.out, "persist") = <<>>
                   /\ ws'.persistedTasks = ws.persistedTasks
                   /\ ws'.completedTasks = << <<>> >>))

PoppedHead(pending) ==
    IF pending = <<>>
      THEN /\ Effects(wlast'.out, "dispatch") = <<>>
           /\ ws'.pendingTasks = <<pending>>
           /\ ws'.taskInProgress = ws.taskInProgress
      ELSE /\ Effects(wlast'.out, "dispatch")
                = <<Eff("dispatch", Head(pending))>>
           /\ ws'.pendingTasks = <<Tail(pending)>>
           /\ ws'.taskInProgress = <<Head(pending)>>

\* C26: initiateNextTask pops the head of the stored pendingTasks - after
\* it dispatched task t, the stored pendingTasks is its previous value
\* without the first element t and taskInProgress is t; on an empty
\* pendingTasks it dispatches nothing and changes no state.
InitiateNextTaskPops ==
    [][/\ \A b \in PollBundles : pollReturns(b) => PoppedHead(b.tasksToRun)
       /\ \A t \in Range(proc) :
            (/\ ws.pendingTasks # <<>>
             /\ ws.pendingTasks[1] # <<>>
             /\ taskComplete(ResultOf(t)))
                => PoppedHead(ws.pendingTasks[1])
      ]_vars

\* C27: taskComplete records the result - after a mid-bundle
\* taskComplete(result) the stored completedTasks is its previous value
\* with result appended.
TaskCompleteRecordsResult ==
    [][\A t \in Range(proc) :
         (/\ ws.pendingTasks # <<>>
          /\ ws.pendingTasks[1] # <<>>
          /\ taskComplete(ResultOf(t)))
            => ws'.completedTasks
                 = <<Append(GetOr(ws.completedTasks, <<>>), ResultOf(t))>>
      ]_vars

\* C28: reportFailed returns the tracker to NotStarted - it leaves every
\* field absent and sends exactly one pushBackBundle, and the startWorker
\* that follows it succeeds.
ReportFailedResets ==
    [][/\ \A fromSelf \in BOOLEAN :
            (ws.queueName # <<>> /\ reportFailed(fromSelf)) =>
                /\ ws' = NoState
                /\ Len(Effects(wlast'.out, "pushBackBundle")) = 1
       /\ \A q \in QueueNames, w \in WorkerLocations :
            (wlast.op = "reportFailed" /\ startWorker(q, w)) =>
                /\ wlast'.ok
                /\ ws'.queueName = <<q>>
                /\ ws'.workerProcessLocation = <<w>>
      ]_vars

\* C28 witness: reportFailed has reset a tracker that was started on queue
\* "jobs" and owned a bundle; a startWorker can follow
ReportFailedResetsWitness ==
    /\ wlast.op = "reportFailed"
    /\ ws = NoState
    /\ Len(PushedBack) = 1
    /\ PushedBack[1].arg.queueName = <<"jobs">>
    /\ PushedBack[1].arg.bundle.tasksToRun # <<>>
    /\ ENABLED (\E q \in QueueNames, w \in WorkerLocations : startWorker(q, w))

\* C29: the heartbeat chain self-terminates - after reportFailed has reset
\* the tracker, eventually no makeHeartbeat message is scheduled any more,
\* unless a new startWorker begins a session.
HeartbeatChainStops ==
    (wlast.op = "reportFailed" /\ ~started)
        ~> (Scheduled(hbs) = 0 \/ started)

\* C30: heartbeat miss counting - makeHeartbeat(n) emits exactly one
\* message: makeHeartbeat(0) after a successful probe, makeHeartbeat(n + 1)
\* after a failed probe with n + 1 < 5, reportFailed after a failed probe
\* with n + 1 >= 5; and the counter a scheduled message carries is the
\* number of failed probes in a row that precede it in its chain.
HeartbeatMissCounting ==
    [][/\ \A n \in HeartbeatCounters, success \in BOOLEAN :
            makeHeartbeat(n, success) =>
                wlast'.out =
                    <<IF success THEN Eff("makeHeartbeat", 0)
                      ELSE IF n + 1 < MAX_MISSED_HEARTBEATS
                        THEN Eff("makeHeartbeat", n + 1)
                        ELSE Eff("reportFailed", 0)>>
       /\ \A n \in HeartbeatCounters, r \in HeartbeatRunValues :
            hbRuns'[<<n, r>>] > 0 => n = r
      ]_vars

\* C30 witness: a chain has counted four failed probes in a row; its next
\* probe either resets the count or reaches the threshold
HeartbeatMissCountingWitness ==
    /\ wlast.op = "makeHeartbeat"
    /\ wlast.out = <<Eff("makeHeartbeat", MAX_MISSED_HEARTBEATS - 1)>>
    /\ hbs[MAX_MISSED_HEARTBEATS - 1] = 1
    /\ ENABLED (/\ makeHeartbeat(MAX_MISSED_HEARTBEATS - 1, TRUE)
                /\ hbs'[0] = hbs[0] + 1)
    /\ ENABLED (/\ makeHeartbeat(MAX_MISSED_HEARTBEATS - 1, FALSE)
                /\ rfPending' = rfPending + 1)

\* ------------------------------------------------------------------------
\*  queue: further properties
\* ------------------------------------------------------------------------

\* a pollBundle invocation is suspended on its awakeable
SuspendedPolls == {h \in Handles : awk[h].st = "pending"}

\* positions of the resolveAwakeable calls that carried bundle b
ResolvedWith(b) ==
    {i \in ComIdx : completions[i].kind = "resolve" /\ completions[i].val = <<b>>}

ClosedQueueHasNoSettledPoller ==
    closed => \A h \in Range(pollers) : awk[h].st = "pending"

\* C35: no bundle is delivered twice - each accepted bundle is carried by
\* at most one resolveAwakeable call, at most one handle holds it, and a
\* bundle that was resolved to a poller is not in storage.
NoDoubleDelivery ==
    \A i \in AdmIdx :
        /\ Cardinality(ResolvedWith(admitted[i].b)) <= 1
        /\ Cardinality({h \in Handles : awk[h].val = <<admitted[i].b>>}) <= 1
        /\ ResolvedWith(admitted[i].b) # {} => ~InStorage(admitted[i].b)

\* C35 witness: one bundle was delivered from storage and another by a
\* direct hand-off, a third is still stored
NoDoubleDeliveryWitness ==
    /\ \E i \in AdmIdx : ~admitted[i].direct /\ Delivered(admitted[i].b)
    /\ \E i \in AdmIdx : admitted[i].direct /\ Delivered(admitted[i].b)
    /\ queue # <<>>

\* ------------------------------------------------------------------------
\*  worker tracker: further properties
\* ------------------------------------------------------------------------

\* a handler of the tracker waits for pollBundle
PollOutstanding == wpc \in {"startWorker_poll", "taskComplete_poll"}

\* C36: a started tracker is never idle while owning a bundle - when the
\* awaited pollBundle returned a bundle and the handler has returned, a
\* task was dispatched or a pollBundle is outstanding, also for a bundle
\* with empty tasksToRun.
NeverIdleWithBundle ==
    [][\A b \in PollBundles :
         pollReturns(b) =>
            \/ /\ Effects(wlast'.out, "dispatch") # <<>>
               /\ ws'.taskInProgress # <<>>
            \/ PollOutstanding'
      ]_vars

\* C37: reportFailed on a tracker without a stored queueName is a no-op -
\* it sends no pushBackBundle and leaves the tracker NotStarted.
ReportFailedNotStartedNoOp ==
    [][\A fromSelf \in BOOLEAN :
         (ws.queueName = <<>> /\ reportFailed(fromSelf)) =>
            /\ Effects(wlast'.out, "pushBackBundle") = <<>>
            /\ ws'.queueName = <<>>
      ]_vars

\* C38: a taskComplete that arrives while the tracker is NotStarted
\* completes, dispatches nothing and does not keep the key: the tracker is
\* still NotStarted and no handler is left running.
LateTaskCompleteHarmless ==
    [][\A t \in Range(proc) :
         (ws.queueName = <<>> /\ taskComplete(ResultOf(t))) =>
            /\ wlast'.ok
            /\ Effects(wlast'.out, "dispatch") = <<>>
            /\ ws'.queueName = <<>>
            /\ wpc' = "idle"
      ]_vars

\* startWorker ended with the rejection of its pollBundle: the tracker has
\* stored its queueName and never received a bundle
StartRejected ==
    /\ wlast.op = "startWorker" /\ ~wlast.ok
    /\ wpc = "idle"
    /\ ws.queueName # <<>>
    /\ ws.pendingTasks = <<>>
    /\ owned = <<>>

\* C39: when the pollBundle of startWorker is rejected, the tracker does
\* not stay started without a bundle for ever - eventually it is
\* NotStarted again, has a task in progress or has a poll outstanding.
RejectedStartIsUndone ==
    StartRejected
        ~> (ws.queueName = <<>> \/ ws.taskInProgress # <<>> \/ PollOutstanding)

\* ------------------------------------------------------------------------
\*  worker tracker: the handlers on the stored state
\* ------------------------------------------------------------------------

\* the effects of persisting each of results in order
PersistEach(results) ==
    [i \in 1..Len(results) |-> Eff("persist", results[i])]

\* C31: checkpointResults moves every unpersisted result - when all
\* persists succeed, completedTasks is empty afterwards and persistedTasks
\* is its previous value followed by one entry per previous completedTasks
\* element, in order, with the same task and the locator of the store.
CheckpointMovesResults ==
    [][(checkpointResults /\ wlast'.ok) =>
          LET old == GetOr(ws.persistedTasks, <<>>)
              results == GetOr(ws.completedTasks, <<>>)
              new == GetOr(ws'.persistedTasks, <<>>)
          IN /\ ws'.completedTasks = << <<>> >>
             /\ Len(new) = Len(old) + Len(results)
             /\ SubSeq(new, 1, Len(old)) = old
             /\ \A i \in 1..Len(results) :
                   /\ new[Len(old) + i].task = results[i].task
                   /\ new[Len(old) + i].resource = "s3"
             /\ wlast'.out = PersistEach(results)
      ]_vars

\* C31 witness: checkpointResults persisted a completed result of a
\* tracker that already had a persisted one
CheckpointMovesResultsWitness ==
    /\ wlast.op = "checkpointResults" /\ wlast.ok
    /\ Len(wlast.out) >= 1
    /\ ws.completedTasks = << <<>> >>
    /\ Len(GetOr(ws.persistedTasks, <<>>)) > Len(wlast.out)

\* taskComplete(ResultOf(t)) runs as the finalization of the bundle: no
\* task is pending
Finalizes(t) ==
    /\ ws.pendingTasks = << <<>> >>
    /\ taskComplete(ResultOf(t))

\* the order of a successful finalization after persisting results
FinalizedAfter(t, results) ==
    /\ wlast'.out = PersistEach(results)
                       \o <<Eff("notify", ResultOf(t)),
                            Eff("pollBundle", ws.queueName)>>
    /\ ws'.pendingTasks = <<>>
    /\ ws'.completedTasks = <<>>
    /\ ws'.persistedTasks = <<>>
    /\ PollOutstanding'

\* a finalization whose persisting failed: no notification, no clearing,
\* no poll
FinalizationFailed ==
    /\ Effects(wlast'.out, "persistFailed") # <<>>
    /\ Effects(wlast'.out, "notify") = <<>>
    /\ Effects(wlast'.out, "pollBundle") = <<>>
    /\ ws'.pendingTasks = ws.pendingTasks
    /\ ws'.completedTasks = ws.completedTasks
    /\ ws'.persistedTasks = ws.persistedTasks
    /\ ~PollOutstanding'

FailedCheckpointKeepsState ==
    [][/\ (/\ checkpointResults
           /\ Len(wlast'.out) < Len(GetOr(ws.completedTasks, <<>>)))
            => (~wlast'.ok /\ ws' = ws)
       /\ \A fromSelf \in BOOLEAN :
            (/\ wlast.op = "checkpointResults" /\ ~wlast.ok
             /\ reportFailed(fromSelf))
                => LET sent == Effects(wlast'.out, "pushBackBundle")
                   IN /\ Len(sent) = 1
                      /\ Range(TasksOf(GetOr(ws.completedTasks, <<>>)))
                            \subseteq Range(sent[1].arg.bundle.tasksToRun)
      ]_vars

\* C40 witness: checkpointResults failed at its second persist and left
\* both completed results stored
FailedCheckpointKeepsStateWitness ==
    /\ wlast.op = "checkpointResults" /\ ~wlast.ok
    /\ Len(wlast.out) = 1
    /\ Len(GetOr(ws.completedTasks, <<>>)) = 2

====
